---- MODULE Spec2Model ----
(***************************************************************************)
(* The status composer of app/assets/v2/js/status.js: the textbox, its     *)
(* local draft, the embedded resource with its preview panels, the         *)
(* metadata fetches in flight and the submission of a status update.       *)
(*                                                                         *)
(* A text is a sequence of tokens; each token stands for one fixed string: *)
(*   "W"   hey                                (3 word characters)          *)
(*   "LONG" abcdefghijklmnopqrstuvwxyzab       (28 word characters)         *)
(*   "BOB" bob                                (a user handle)              *)
(*   "SP"  one space                                                       *)
(*   "LB"  one line break                                                  *)
(*   "AT"  @                                                               *)
(*   "EMO" one emoji                          (2 UTF-16 units)             *)
(*   "YT"  https://youtu.be/dQw4w9WgXcQ       (an 11-character video id)   *)
(*   "URL" https://ab.io/x                                                 *)
(*   "GU"  https://giphy.com/media/a.webp     (a typed GIF-provider URL)   *)
(*   "G1"  https://media0.giphy.com/media/g1/giphy.webp  (a search result) *)
(*   "G2"  https://media0.giphy.com/media/g2/giphy.webp  (a search result) *)
(* The three regular expressions are computed on the token sequence as     *)
(* they match on the concatenated string.                                  *)
(***************************************************************************)
EXTENDS Naturals, Sequences, FiniteSets

VARIABLES
  textarea,            \* $('#textarea').val()
  ls,                  \* localStorage[lskey], the local draft cache
  embedded_resource,   \* var embedded_resource
  thumbnail,           \* #thumbnail: shown, title, provider, desc, img
  preview,             \* #preview: shown, img (#preview-img src)
  btn_disabled,        \* #btn_post disabled attribute
  focused,             \* $('#textarea').is(':focus')
  poll,                \* #poll-button selected, #poll_container present
  video,               \* #video-button selected, #video_container present
  dropdown,            \* #textarea-dropdown: show class, rows
  fetches,             \* video-/link-metadata fetches in flight
  lookups,             \* user-search fetches in flight
  posts,               \* submissions in flight, each its the_message
  timers,              \* focusout timeouts not yet fired
  recent,              \* how the most recent input event classified the text
  pressed,             \* Enter is down in the textbox and its keydown has submitted
  last                 \* the handler that ran last: what it issued, the message
                       \* of the submission it completed

vars == <<textarea, ls, embedded_resource, thumbnail, preview, btn_disabled,
          focused, poll, video, dropdown, fetches, lookups, posts, timers, recent,
          pressed, last>>

----------------------------------------------------------------------------
(* Bounds of the model. *)

MaxText == 2          \* tokens in the textbox
MaxFetches == 1       \* metadata fetches in flight
MaxLookups == 1       \* user-search fetches in flight
MaxPosts == 1         \* submissions in flight
MaxTimers == 1        \* focusout timeouts pending
MaxLen == 30          \* the textbox's data-maxlen attribute

(* Program constants. *)
MinLen == 4           \* len > 4
VideoIdLen == 11      \* youtube[1].length === 11
DescLimit == 200      \* response.description.length > 200
MentionMin == 2       \* usernameFilter.length > 2

----------------------------------------------------------------------------
(* Strings as token sequences. *)

TokLen(t) ==
  CASE t = "W" -> 3
    [] t = "SP" -> 1
    [] t = "LB" -> 1
    [] t = "AT" -> 1
    [] t = "EMO" -> 2
    [] t = "YT" -> 28
    [] t = "URL" -> 15
    [] t = "GU" -> 30
    [] t = "BOB" -> 3
    [] t = "LONG" -> 28
    [] OTHER -> 44

RECURSIVE StrLen(_)
StrLen(s) == IF s = <<>> THEN 0 ELSE TokLen(Head(s)) + StrLen(Tail(s))

IsSpace(t) == t \in {"SP", "LB"}

\* String.prototype.trim
RECURSIVE TrimLeft(_)
TrimLeft(s) == IF s # <<>> /\ IsSpace(Head(s)) THEN TrimLeft(Tail(s)) ELSE s

RECURSIVE TrimRight(_)
TrimRight(s) ==
  IF s # <<>> /\ IsSpace(s[Len(s)]) THEN TrimRight(SubSeq(s, 1, Len(s) - 1)) ELSE s

Trim(s) == TrimRight(TrimLeft(s))

\* e.target.value.split(' ').pop(): what follows the last space
RECURSIVE LastWord(_)
LastWord(s) ==
  IF s = <<>> THEN <<>>
  ELSE IF s[Len(s)] = "SP" THEN <<>>
  ELSE LastWord(SubSeq(s, 1, Len(s) - 1)) \o <<s[Len(s)]>>

----------------------------------------------------------------------------
(* The regular expressions. *)

\* a token whose string starts "https://" and is a whole URL
IsUrlTok(t) == t \in {"YT", "URL", "GU", "G1", "G2"}
\* a token made of characters of the class [-a-zA-Z0-9@:%_\+.~#?&//=]
IsUrlBody(t) == t \in {"W", "LONG", "AT", "BOB", "YT", "URL", "GU", "G1", "G2"}
\* a token whose first character is of the class [\w-]
StartsWordChar(t) == t \in {"W", "LONG", "BOB", "YT", "URL", "GU", "G1", "G2"}

RECURSIVE UrlRun(_)
UrlRun(s) ==
  IF s # <<>> /\ IsUrlBody(Head(s)) THEN <<Head(s)>> \o UrlRun(Tail(s)) ELSE <<>>

\* s.match(url_re): <<>> for null, else <<match[0]>>
RECURSIVE UrlMatch(_)
UrlMatch(s) ==
  IF s = <<>> THEN <<>>
  ELSE IF IsUrlTok(Head(s)) THEN << <<Head(s)>> \o UrlRun(Tail(s)) >>
  ELSE UrlMatch(Tail(s))

\* the video id in the token, and its length
VideoIdOf(t) == "dQw4w9WgXcQ"
IdLen(id) == IF id = "dQw4w9WgXcQ" THEN 11 ELSE 0

\* s.match(youtube_re): <<>> for null, else <<[full |-> match[0], id |-> match[1]]>>
RECURSIVE YoutubeMatch(_)
YoutubeMatch(s) ==
  IF s = <<>> THEN <<>>
  ELSE IF Head(s) = "YT" /\ (Len(s) = 1 \/ ~StartsWordChar(s[2]))
       THEN << [full |-> <<"YT">>, id |-> VideoIdOf("YT")] >>
  ELSE YoutubeMatch(Tail(s))

\* s.match(giphy_re) is not null
GiphyMatch(s) == \E i \in 1..Len(s) : s[i] \in {"GU", "G1", "G2"}

----------------------------------------------------------------------------
(* Values of the page. *)

NoText == <<>>
NoDesc == [id |-> "", n |-> 0, dots |-> FALSE]
HiddenThumbnail ==
  [shown |-> FALSE, title |-> NoText, provider |-> NoText, desc |-> NoDesc, img |-> NoText]
HiddenPreview == [shown |-> FALSE, img |-> NoText]
Placeholder == <<"gitcoinbot.png">>

\* the mutable state a handler reads and writes, with what it has issued so far
Cur ==
  [textarea |-> textarea, ls |-> ls, er |-> embedded_resource,
   thumbnail |-> thumbnail, preview |-> preview, btn_disabled |-> btn_disabled,
   focused |-> focused, poll |-> poll, video |-> video, dropdown |-> dropdown,
   fetches |-> fetches, lookups |-> lookups, posts |-> posts, timers |-> timers,
   req |-> <<>>, fx |-> 0, lk |-> 0, msg |-> NoText]

----------------------------------------------------------------------------
(* submitStatusUpdate *)

\* the resource fields of the payload; each field lists the values appended to it
NoResource ==
  [resource |-> <<>>, resourceProvider |-> <<>>, resourceId |-> <<>>,
   title |-> <<>>, description |-> <<>>, image |-> <<>>]

\* faulty variant: a YouTube resource is sent as content
ResourceFieldsNoVideo(er, th) ==
  IF er = NoText THEN NoResource
  ELSE IF GiphyMatch(er)
  THEN [NoResource EXCEPT !.resource = <<"gif">>,
                          !.resourceProvider = << <<"giphy">> >>,
                          !.resourceId = <<er>>]
  ELSE [resource |-> <<"content">>, resourceProvider |-> <<th.provider>>,
        resourceId |-> <<er>>,
        title |-> <<th.title>>, description |-> <<th.desc>>, image |-> <<th.img>>]

ResourceFields(er, th) ==
  IF er = NoText THEN NoResource
  ELSE LET youtube == YoutubeMatch(er) IN
    IF GiphyMatch(er)
    THEN [NoResource EXCEPT !.resource = <<"gif">>,
                            !.resourceProvider = << <<"giphy">> >>,
                            !.resourceId = <<er>>]
    ELSE IF youtube # <<>> /\ IdLen(youtube[1].id) = VideoIdLen
    THEN [resource |-> <<"video">>, resourceProvider |-> << <<"youtube">> >>,
          resourceId |-> << <<youtube[1].id>> >>,
          title |-> <<th.title>>, description |-> <<th.desc>>, image |-> <<th.img>>]
    ELSE [resource |-> <<"content">>, resourceProvider |-> <<th.provider>>,
          resourceId |-> <<er>>,
          title |-> <<th.title>>, description |-> <<th.desc>>, image |-> <<th.img>>]

\* submitStatusUpdate past its guard: the payload is built, the textbox and the
\* draft are emptied, the containers removed and the request issued
SendStatus(s) ==
  LET the_message == Trim(s.textarea)
      payload == [data |-> the_message, has_video |-> s.video.container,
                  fields |-> ResourceFields(s.er, s.thumbnail)]
  IN [s EXCEPT !.textarea = NoText,
               !.ls = NoText,
               !.poll.container = FALSE,
               !.video.container = FALSE,
               !.posts = Append(@, the_message),
               !.req = Append(@, payload)]

\* faulty variant: the guard on the disabled control is missing
SubmitUnguarded(s) == SendStatus(s)

SubmitStatusUpdate(s) ==
  IF s.btn_disabled THEN s ELSE SendStatus(s)

----------------------------------------------------------------------------
(* The focus/change/paste/keydown/keyup/blur handler of #textarea. *)

KeystrokeHandler(s, enter, shiftKey) ==
  LET len == StrLen(Trim(s.textarea))
      s1 == [s EXCEPT !.ls = s.textarea]
  IN IF len > MaxLen THEN [s1 EXCEPT !.btn_disabled = TRUE]
     ELSE IF len > MinLen
     THEN LET s2 == [s1 EXCEPT !.btn_disabled = FALSE]
          IN IF s2.focused /\ ~shiftKey /\ enter THEN SubmitStatusUpdate(s2) ELSE s2
     ELSE [s1 EXCEPT !.btn_disabled = TRUE]

\* whether the handler called e.preventDefault()
Prevented(s, enter, shiftKey) ==
  LET len == StrLen(Trim(s.textarea))
  IN ~(len > MaxLen) /\ len > MinLen /\ s.focused /\ ~shiftKey /\ enter

----------------------------------------------------------------------------
(* The input handler of #textarea. *)

HideThumbnail(s) ==
  [s EXCEPT !.thumbnail.shown = FALSE, !.thumbnail.desc = NoDesc, !.er = NoText]

\* the youtube branch: the lookup is issued unless the match is embedded already
YoutubeBranch(s, youtube) ==
  IF s.er # youtube.full
  THEN LET f == [kind |-> "video", res |-> youtube.full, id |-> youtube.id]
       IN [s EXCEPT !.fetches = Append(@, f), !.fx = @ + 1]
  ELSE s

\* the link branch: the metadata of the first URL is fetched
LinkBranch(s, url) ==
  LET f == [kind |-> "link", res |-> url, id |-> ""]
  IN [s EXCEPT !.fetches = Append(@, f), !.fx = @ + 1]

\* faulty variant: the embed is dropped and the panel left as it is
ClearEmbedOnly(s) == [s EXCEPT !.er = NoText]

ClearEmbed(s) == [s EXCEPT !.er = NoText, !.thumbnail.shown = FALSE]

\* the else branch
NoneBranch(s, no_lb) ==
  LET s1 == [s EXCEPT !.thumbnail.desc = NoDesc]
  IN IF no_lb THEN ClearEmbed(s1) ELSE s1

\* faulty variant: the generic URL pattern is tried before the YouTube pattern
ClassifyLinkFirst(s, no_lb) ==
  LET site == UrlMatch(s.textarea)
      youtube == YoutubeMatch(s.textarea)
  IN IF site # <<>> /\ no_lb THEN LinkBranch(s, site[1])
     ELSE IF youtube # <<>> /\ IdLen(youtube[1].id) = VideoIdLen /\ no_lb
     THEN YoutubeBranch(s, youtube[1])
     ELSE NoneBranch(s, no_lb)

Classify(s, no_lb) ==
  LET site == UrlMatch(s.textarea)
      youtube == YoutubeMatch(s.textarea)
  IN IF youtube # <<>> /\ IdLen(youtube[1].id) = VideoIdLen /\ no_lb
     THEN YoutubeBranch(s, youtube[1])
     ELSE IF site # <<>> /\ no_lb THEN LinkBranch(s, site[1])
     ELSE NoneBranch(s, no_lb)

Mention(s) ==
  LET lastWord == LastWord(s.textarea)
  IN IF lastWord # <<>> /\ Head(lastWord) = "AT"
     THEN LET usernameFilter == Tail(lastWord)
          IN IF StrLen(usernameFilter) > MentionMin
             THEN LET q == [filter |-> usernameFilter, lastWord |-> lastWord]
                  IN [s EXCEPT !.lookups = Append(@, q), !.lk = @ + 1]
             ELSE s
     ELSE [s EXCEPT !.dropdown.show = FALSE]

\* faulty variant: the GIF priority guard is missing
InputHandlerNoLock(s, no_lb) == Mention(Classify(s, no_lb))

InputHandler(s, no_lb) ==
  IF GiphyMatch(s.er) THEN s ELSE Mention(Classify(s, no_lb))

\* the classification of an input event, as the Input Classifier names it
Classification(s, no_lb) ==
  LET site == UrlMatch(s.textarea)
      youtube == YoutubeMatch(s.textarea)
  IN IF GiphyMatch(s.er) THEN [kind |-> "gif-locked", res |-> s.er]
     ELSE IF youtube # <<>> /\ IdLen(youtube[1].id) = VideoIdLen /\ no_lb
     THEN [kind |-> "youtube", res |-> youtube[1].full]
     ELSE IF site # <<>> /\ no_lb THEN [kind |-> "link", res |-> site[1]]
     ELSE IF no_lb THEN [kind |-> "none", res |-> NoText]
     ELSE [kind |-> "line-break", res |-> NoText]

NoInput == [kind |-> "no-input", res |-> NoText]

----------------------------------------------------------------------------
(* Steps. *)

Bounded(r) ==
  /\ Len(r.fetches) <= MaxFetches
  /\ Len(r.lookups) <= MaxLookups
  /\ Len(r.posts) <= MaxPosts
  /\ r.timers <= MaxTimers

\* the handler named op has run and left the page as r
Commit(r, op) ==
  /\ Bounded(r)
  /\ textarea' = r.textarea
  /\ ls' = r.ls
  /\ embedded_resource' = r.er
  /\ thumbnail' = r.thumbnail
  /\ preview' = r.preview
  /\ btn_disabled' = r.btn_disabled
  /\ focused' = r.focused
  /\ poll' = r.poll
  /\ video' = r.video
  /\ dropdown' = r.dropdown
  /\ fetches' = r.fetches
  /\ lookups' = r.lookups
  /\ posts' = r.posts
  /\ timers' = r.timers
  /\ pressed' = IF op = "keydown-enter" THEN r.req # <<>>
                ELSE IF op \in {"keyup-enter", "blur"} THEN FALSE
                ELSE pressed
  /\ last' = [op |-> op, req |-> r.req, fx |-> r.fx, lk |-> r.lk, msg |-> r.msg]

Remove(q, i) == SubSeq(q, 1, i - 1) \o SubSeq(q, i + 1, Len(q))

InitDrafts == {NoText, <<"W", "W">>}

Init ==
  /\ ls \in InitDrafts
  /\ textarea = ls
  /\ embedded_resource = NoText
  /\ thumbnail = HiddenThumbnail
  /\ preview = HiddenPreview
  /\ btn_disabled = TRUE
  /\ focused \in BOOLEAN
  /\ poll = [selected |-> FALSE, container |-> FALSE]
  /\ video = [selected |-> FALSE, container |-> FALSE]
  /\ dropdown = [show |-> FALSE, rows |-> {}]
  /\ fetches = <<>>
  /\ lookups = <<>>
  /\ posts = <<>>
  /\ timers = 0
  /\ recent = NoInput
  /\ pressed = FALSE
  /\ last = [op |-> "ready", req |-> <<>>, fx |-> 0, lk |-> 0, msg |-> NoText]

\* the textbox gains focus
Focus ==
  /\ ~focused
  /\ Commit(KeystrokeHandler([Cur EXCEPT !.focused = TRUE], FALSE, FALSE), "focus")
  /\ UNCHANGED recent

\* the textbox loses focus: change and blur
Blur ==
  /\ focused
  /\ Commit(KeystrokeHandler([Cur EXCEPT !.focused = FALSE], FALSE, FALSE), "blur")
  /\ UNCHANGED recent

\* focusout, which follows blur: the timeout that hides the dropdown is set
FocusOut ==
  /\ last.op = "blur"
  /\ Commit([Cur EXCEPT !.timers = @ + 1], "focusout")
  /\ UNCHANGED recent

TypeTokens == {"W", "LONG", "SP", "AT", "YT", "URL", "GU"}

\* a key press or a paste that inserts t: keydown (or paste), then input
TypeToken(t) ==
  /\ focused
  /\ Len(textarea) < MaxText
  /\ LET s1 == KeystrokeHandler(Cur, FALSE, FALSE)
         s2 == [s1 EXCEPT !.textarea = Append(@, t)]
     IN /\ Commit(InputHandler(s2, TRUE), "input")
        /\ recent' = Classification(s2, TRUE)

\* Backspace: keydown, then input with the last token deleted
DeleteToken ==
  /\ focused
  /\ textarea # NoText
  /\ LET s1 == KeystrokeHandler(Cur, FALSE, FALSE)
         s2 == [s1 EXCEPT !.textarea = SubSeq(@, 1, Len(@) - 1)]
     IN /\ Commit(InputHandler(s2, TRUE), "input")
        /\ recent' = Classification(s2, TRUE)

\* keydown of Enter: the handler submits, or the line break is inserted (input)
PressEnter(shiftKey) ==
  /\ focused
  /\ IF Prevented(Cur, TRUE, shiftKey)
     THEN /\ Commit(KeystrokeHandler(Cur, TRUE, shiftKey), "keydown-enter")
          /\ UNCHANGED recent
     ELSE /\ Len(textarea) < MaxText
          /\ LET s1 == KeystrokeHandler(Cur, TRUE, shiftKey)
                 s2 == [s1 EXCEPT !.textarea = Append(@, "LB")]
             IN /\ Commit(InputHandler(s2, FALSE), "input-lb")
                /\ recent' = Classification(s2, FALSE)

\* keyup of Enter
ReleaseEnter(shiftKey) ==
  /\ focused
  /\ Commit(KeystrokeHandler(Cur, TRUE, shiftKey), "keyup-enter")
  /\ UNCHANGED recent

\* keyup of another key, or change
KeyUp ==
  /\ focused
  /\ Commit(KeystrokeHandler(Cur, FALSE, FALSE), "keyup")
  /\ UNCHANGED recent

\* the emoji picker's 'emoji' callback
EmojiPick ==
  /\ ~focused
  /\ Len(textarea) < MaxText
  /\ Commit([Cur EXCEPT !.textarea = Append(@, "EMO")], "emoji")
  /\ UNCHANGED recent

GifResults == {<<"G1">>, <<"G2">>}

\* a click on a search result; the click has taken the focus from the textbox
SelectGif(src) ==
  /\ ~focused
  /\ Commit([Cur EXCEPT !.er = src,
                        !.preview = [shown |-> TRUE, img |-> src],
                        !.thumbnail.shown = FALSE], "selectGif")
  /\ recent' = NoInput

\* the click listener of #btn_post; the click has taken the focus from the textbox
BtnPostClick ==
  /\ ~focused
  /\ Commit(SubmitStatusUpdate(Cur), "click")
  /\ UNCHANGED recent

----------------------------------------------------------------------------
(* Responses of the metadata fetches. *)

Descriptions ==
  {[id |-> "d", n |-> DescLimit, dots |-> FALSE],
   [id |-> "d", n |-> DescLimit + 1, dots |-> FALSE]}

\* the responses of service/metadata for url: truthy ones, and a falsy one
Falsy == [ok |-> FALSE, title |-> NoText, link |-> NoText, description |-> NoDesc,
          image |-> NoText]

LinkResponses(url) ==
  {[ok |-> TRUE, title |-> <<"title of">> \o url, link |-> <<"link of">> \o url,
    description |-> d, image |-> img] :
      d \in Descriptions, img \in {NoText, <<"image of">> \o url}}
  \cup {Falsy}

\* faulty variant: the description is cut and no ellipsis is added
TruncateNoEllipsis(d) ==
  IF d.n > DescLimit THEN [id |-> d.id, n |-> DescLimit, dots |-> FALSE] ELSE d

Truncate(d) ==
  IF d.n > DescLimit THEN [id |-> d.id, n |-> DescLimit, dots |-> TRUE] ELSE d

VideoCallback(s, f, hasItems) ==
  IF hasItems
  THEN [s EXCEPT !.thumbnail.title = <<"title of", f.id>>,
                 !.thumbnail.provider = <<"Youtube">>,
                 !.thumbnail.img = <<"https://img.youtube.com/vi/", f.id, "/default.jpg">>,
                 !.er = f.res,
                 !.thumbnail.shown = TRUE,
                 !.preview.shown = FALSE]
  ELSE HideThumbnail(s)

LinkCallback(s, f, response) ==
  IF response.ok
  THEN [s EXCEPT !.thumbnail.title = response.title,
                 !.thumbnail.provider = response.link,
                 !.thumbnail.desc = Truncate(response.description),
                 !.thumbnail.img = IF response.image # NoText THEN response.image
                                   ELSE Placeholder,
                 !.er = f.res,
                 !.thumbnail.shown = TRUE,
                 !.preview.shown = FALSE]
  ELSE HideThumbnail(s)

VideoResponse(i, hasItems) ==
  /\ i \in 1..Len(fetches)
  /\ fetches[i].kind = "video"
  /\ Commit(VideoCallback([Cur EXCEPT !.fetches = Remove(@, i)], fetches[i], hasItems),
            "video-response")
  /\ UNCHANGED recent

LinkResponse(i, d, hasImage, ok) ==
  /\ i \in 1..Len(fetches)
  /\ fetches[i].kind = "link"
  /\ \E response \in LinkResponses(fetches[i].res) :
       /\ response.ok = ok
       /\ ok => response.description = d /\ (response.image # NoText) = hasImage
       /\ Commit(LinkCallback([Cur EXCEPT !.fetches = Remove(@, i)], fetches[i], response),
                 "link-response")
  /\ UNCHANGED recent

\* a metadata fetch fails: $.when(...).then has no failure callback
FetchFails(i) ==
  /\ i \in 1..Len(fetches)
  /\ Commit([Cur EXCEPT !.fetches = Remove(@, i)], "fetch-failed")
  /\ UNCHANGED recent

----------------------------------------------------------------------------
(* Completion of a submission. *)

\* faulty variant: the 200 handler leaves embedded_resource as it is
OkCallbackKeepsEmbed(s, hasFeed) ==
  LET s1 == [s EXCEPT !.thumbnail = HiddenThumbnail, !.preview = HiddenPreview]
  IN IF hasFeed THEN [s1 EXCEPT !.textarea = NoText] ELSE s1

OkCallback(s, hasFeed) ==
  LET s1 == [s EXCEPT !.thumbnail = HiddenThumbnail,
                      !.preview = HiddenPreview,
                      !.er = NoText]
  IN IF hasFeed THEN [s1 EXCEPT !.textarea = NoText] ELSE s1

\* faulty variant: the failure puts the message back in the textbox only
fail_callback_textbox_only(s, the_message) == [s EXCEPT !.textarea = the_message]

fail_callback(s, the_message) ==
  [s EXCEPT !.textarea = the_message, !.ls = the_message]

\* response.status === 200; hasFeed: the page has an active activities list
PostOk(i, hasFeed) ==
  /\ i \in 1..Len(posts)
  /\ Commit(OkCallback([Cur EXCEPT !.posts = Remove(@, i), !.msg = posts[i]], hasFeed),
            "post-ok")
  /\ recent' = NoInput

\* another status, or the fetch rejects
PostFails(i) ==
  /\ i \in 1..Len(posts)
  /\ Commit(fail_callback([Cur EXCEPT !.posts = Remove(@, i), !.msg = posts[i]], posts[i]),
            "post-failed")
  /\ UNCHANGED recent

----------------------------------------------------------------------------
(* Poll and video buttons. *)

Toggle(b) ==
  IF ~b.selected THEN [selected |-> TRUE, container |-> TRUE]
  ELSE [selected |-> FALSE, container |-> FALSE]

PollClick ==
  /\ ~focused
  /\ Commit([Cur EXCEPT !.poll = Toggle(@)], "poll-click")
  /\ UNCHANGED recent

VideoClick ==
  /\ ~focused
  /\ Commit([Cur EXCEPT !.video = Toggle(@)], "video-click")
  /\ UNCHANGED recent

----------------------------------------------------------------------------
(* The mention dropdown. *)

Handles == {<<>>, <<"BOB">>}

LookupCallback(s, q, data) ==
  [s EXCEPT !.dropdown =
     [show |-> TRUE,
      rows |-> {[handle |-> data[k], lastWord |-> q.lastWord] : k \in 1..Len(data)}]]

LookupResponse(i, data) ==
  /\ i \in 1..Len(lookups)
  /\ Commit(LookupCallback([Cur EXCEPT !.lookups = Remove(@, i)], lookups[i], data),
            "lookup-response")
  /\ UNCHANGED recent

LookupFails(i) ==
  /\ i \in 1..Len(lookups)
  /\ Commit([Cur EXCEPT !.lookups = Remove(@, i)], "lookup-failed")
  /\ UNCHANGED recent

\* inputVal.search(lastWord): the first position of w in s, 0 for -1
Search(s, w) ==
  LET hits == {i \in 1..(Len(s) + 1) : i + Len(w) - 1 <= Len(s)
                                        /\ SubSeq(s, i, i + Len(w) - 1) = w}
  IN IF hits = {} THEN 0 ELSE CHOOSE i \in hits : \A j \in hits : i <= j

RowCallback(s, row) ==
  LET inputPos == Search(s.textarea, row.lastWord)
  IN IF inputPos # 0
     THEN LET s1 == [s EXCEPT !.textarea =
                       SubSeq(@, 1, inputPos - 1) \o <<"AT", row.handle, "SP">>]
              s2 == IF s1.focused THEN s1
                    ELSE KeystrokeHandler([s1 EXCEPT !.focused = TRUE], FALSE, FALSE)
          IN [s2 EXCEPT !.dropdown.show = FALSE]
     ELSE s

\* a click on a row of the dropdown; the click has taken the focus from the textbox
RowClick(row) ==
  /\ ~focused
  /\ dropdown.show
  /\ row \in dropdown.rows
  /\ Commit(RowCallback(Cur, row), "row-click")
  /\ UNCHANGED recent

\* the timeout set by focusout fires
TimerFires ==
  /\ timers > 0
  /\ Commit([Cur EXCEPT !.timers = @ - 1, !.dropdown.show = FALSE], "timeout")
  /\ UNCHANGED recent

----------------------------------------------------------------------------

Next ==
  \/ Focus
  \/ Blur
  \/ FocusOut
  \/ \E t \in TypeTokens : TypeToken(t)
  \/ DeleteToken
  \/ \E shiftKey \in BOOLEAN : PressEnter(shiftKey)
  \/ \E shiftKey \in BOOLEAN : ReleaseEnter(shiftKey)
  \/ KeyUp
  \/ EmojiPick
  \/ \E src \in GifResults : SelectGif(src)
  \/ BtnPostClick
  \/ \E i \in 1..MaxFetches, hasItems \in BOOLEAN : VideoResponse(i, hasItems)
  \/ \E i \in 1..MaxFetches, d \in Descriptions, hasImage \in BOOLEAN, ok \in BOOLEAN :
       LinkResponse(i, d, hasImage, ok)
  \/ \E i \in 1..MaxFetches : FetchFails(i)
  \/ \E i \in 1..MaxPosts, hasFeed \in BOOLEAN : PostOk(i, hasFeed)
  \/ \E i \in 1..MaxPosts : PostFails(i)
  \/ PollClick
  \/ VideoClick
  \/ \E i \in 1..MaxLookups, data \in Handles : LookupResponse(i, data)
  \/ \E i \in 1..MaxLookups : LookupFails(i)
  \/ \E row \in dropdown.rows : RowClick(row)
  \/ TimerFires

Spec == Init /\ [][Next]_vars

EmbedTokens == {"W", "YT", "URL"}
LongDesc == [id |-> "d", n |-> DescLimit + 1, dots |-> FALSE]

NextEmbed ==
  \/ Focus
  \/ Blur
  \/ \E t \in EmbedTokens : TypeToken(t)
  \/ DeleteToken
  \/ \E shiftKey \in BOOLEAN : PressEnter(shiftKey)
  \/ \E shiftKey \in BOOLEAN : ReleaseEnter(shiftKey)
  \/ SelectGif(<<"G1">>)
  \/ BtnPostClick
  \/ \E i \in 1..MaxFetches, hasItems \in BOOLEAN : VideoResponse(i, hasItems)
  \/ \E i \in 1..MaxFetches, ok \in BOOLEAN : LinkResponse(i, LongDesc, TRUE, ok)
  \/ \E i \in 1..MaxFetches : FetchFails(i)
  \/ \E i \in 1..MaxPosts, hasFeed \in BOOLEAN : PostOk(i, hasFeed)
  \/ \E i \in 1..MaxPosts : PostFails(i)

SpecEmbed == Init /\ [][NextEmbed]_vars

(* The composer without URLs typed: the textbox with its draft, the submit   *)
(* control, a selected GIF, the poll and video decorations, and submissions. *)
SubmitTokens == {"W", "LONG", "SP"}

NextSubmit ==
  \/ Focus
  \/ Blur
  \/ \E t \in SubmitTokens : TypeToken(t)
  \/ DeleteToken
  \/ \E shiftKey \in BOOLEAN : PressEnter(shiftKey)
  \/ \E shiftKey \in BOOLEAN : ReleaseEnter(shiftKey)
  \/ KeyUp
  \/ EmojiPick
  \/ SelectGif(<<"G1">>)
  \/ BtnPostClick
  \/ \E i \in 1..MaxPosts, hasFeed \in BOOLEAN : PostOk(i, hasFeed)
  \/ \E i \in 1..MaxPosts : PostFails(i)
  \/ PollClick
  \/ VideoClick

SpecSubmit == Init /\ [][NextSubmit]_vars

(* The composer with mentions typed: the user-search lookups in flight, the  *)
(* dropdown with its rows and its timeout, and a selected GIF.               *)
MentionTokens == {"AT", "BOB", "SP"}

NextMention ==
  \/ Focus
  \/ Blur
  \/ FocusOut
  \/ \E t \in MentionTokens : TypeToken(t)
  \/ DeleteToken
  \/ SelectGif(<<"G1">>)
  \/ \E i \in 1..MaxLookups, data \in Handles : LookupResponse(i, data)
  \/ \E i \in 1..MaxLookups : LookupFails(i)
  \/ \E row \in dropdown.rows : RowClick(row)
  \/ TimerFires

SpecMention == Init /\ [][NextMention]_vars

(* The composer with links typed, a GIF-provider URL among them: the link    *)
(* resolver with every shape of response, a selected GIF and submissions.    *)
LinkTokens == {"URL", "GU"}

NextLink ==
  \/ Focus
  \/ Blur
  \/ \E t \in LinkTokens : TypeToken(t)
  \/ DeleteToken
  \/ SelectGif(<<"G1">>)
  \/ BtnPostClick
  \/ \E i \in 1..MaxFetches, d \in Descriptions, hasImage \in BOOLEAN, ok \in BOOLEAN :
       LinkResponse(i, d, hasImage, ok)
  \/ \E i \in 1..MaxFetches : FetchFails(i)
  \/ \E i \in 1..MaxPosts, hasFeed \in BOOLEAN : PostOk(i, hasFeed)

SpecLink == Init /\ [][NextLink]_vars

----------------------------------------------------------------------------
(* Properties. *)

IsInput(op) == op \in {"input", "input-lb"}
IsMetadataResponse(op) == op \in {"video-response", "link-response"}
\* the metadata fetches the step has issued
Issued == SubSeq(fetches', Len(fetches') - last'.fx + 1, Len(fetches'))

(* C1. GIF lock: an input event of the textbox that finds embedded_resource  *)
(* matching the GIF-provider pattern leaves it as it is and issues no        *)
(* metadata fetch, whatever the text and whether or not the edit is a line   *)
(* break.                                                                    *)
C1_GifLock ==
  [][(IsInput(last'.op) /\ GiphyMatch(embedded_resource))
       => /\ embedded_resource' = embedded_resource
          /\ fetches' = fetches
          /\ last'.fx = 0]_vars

\* a URL typed while a selected GIF is embedded
C1_Witness ==
  /\ last.op = "input"
  /\ embedded_resource = <<"G1">>
  /\ UrlMatch(textarea) # <<>>

(* C2. Every submission request carries a trimmed message of more than       *)
(* MinLen and at most MaxLen characters.                                     *)
C2_RequestInRange ==
  \A k \in 1..Len(last.req) :
    LET n == StrLen(last.req[k].data) IN n > MinLen /\ n <= MaxLen

(* C3. submitStatusUpdate invoked while #btn_post is disabled issues no      *)
(* request and leaves the textbox, the draft cache, embedded_resource, the   *)
(* preview panels and the poll and video containers unchanged.               *)
C3_RejectedSubmit ==
  [][(last'.op = "click" /\ btn_disabled)
       => /\ last'.req = <<>>
          /\ UNCHANGED <<textarea, ls, embedded_resource, thumbnail, preview, poll,
                         video, posts>>]_vars

\* a click on the disabled control with 3 characters typed and everything set
C3_Witness ==
  /\ last.op = "click"
  /\ btn_disabled
  /\ StrLen(Trim(textarea)) = 3
  /\ embedded_resource # NoText
  /\ poll.container
  /\ video.container

(* C4. When a submission fails, the textbox and the draft cache both hold    *)
(* the trimmed message of that submission right after, and the failure       *)
(* issues no request.                                                        *)
C4_Rollback ==
  [][last'.op = "post-failed"
       => /\ \E i \in 1..Len(posts) : last'.msg = posts[i] /\ posts' = Remove(posts, i)
          /\ textarea' = last'.msg
          /\ ls' = last'.msg
          /\ Trim(last'.msg) = last'.msg
          /\ last'.req = <<>>]_vars

\* a failed submission has put its message back; the control is still disabled
\* by a keystroke event that saw the emptied textbox
C4_Witness ==
  /\ last.op = "post-failed"
  /\ StrLen(textarea) > MinLen
  /\ ls = textarea
  /\ btn_disabled

(* C5. A submission carries at most one resource field; none exactly when    *)
(* embedded_resource is empty, gif exactly when it matches the GIF-provider  *)
(* pattern, video exactly when it does not and matches the YouTube pattern   *)
(* with an 11-character id, content for every other value.                   *)
C5_ResourceShape ==
  [][\A k \in 1..Len(last'.req) :
       LET resource == last'.req[k].fields.resource
           youtube == YoutubeMatch(embedded_resource)
       IN /\ Len(resource) <= 1
          /\ \A j \in 1..Len(resource) : resource[j] \in {"gif", "video", "content"}
          /\ resource = <<>> <=> embedded_resource = NoText
          /\ resource = <<"gif">> <=> GiphyMatch(embedded_resource)
          /\ resource = <<"video">> <=>
               /\ ~GiphyMatch(embedded_resource)
               /\ youtube # <<>>
               /\ IdLen(youtube[1].id) = VideoIdLen
          /\ resource = <<"content">> <=>
               /\ embedded_resource # NoText
               /\ ~GiphyMatch(embedded_resource)
               /\ youtube = <<>>]_vars

\* a submission with an embedded video
C5_Witness ==
  /\ last.req # <<>>
  /\ last.req[1].fields.resource = <<"video">>
  /\ embedded_resource = <<"YT">>

(* C6. Whenever embedded_resource is empty, #thumbnail is hidden.            *)
C6_HiddenWhenEmpty == embedded_resource = NoText => ~thumbnail.shown

\* a panel that was filled and shown is hidden with nothing embedded
C6_Witness ==
  /\ embedded_resource = NoText
  /\ ~thumbnail.shown
  /\ thumbnail.title # NoText
  /\ last.op = "input"

(* C7. Once no metadata fetch is in flight, embedded_resource and the        *)
(* preview panel are those of the most recent input event's classification:  *)
(* nothing embedded and the panel hidden after none, nothing else than the   *)
(* matched string embedded after youtube or link.                            *)
C7_MostRecentInputWins ==
  fetches = <<>> =>
    /\ recent.kind = "none" => embedded_resource = NoText /\ ~thumbnail.shown
    /\ recent.kind \in {"youtube", "link"} =>
         embedded_resource \in {NoText, recent.res}

(* C8. While embedded_resource holds a selected GIF, the completion of a     *)
(* metadata fetch changes neither embedded_resource nor the panels shown.    *)
C8_GifOverResolvers ==
  [][(IsMetadataResponse(last'.op) /\ GiphyMatch(embedded_resource))
       => /\ embedded_resource' = embedded_resource
          /\ preview' = preview
          /\ thumbnail'.shown = thumbnail.shown]_vars

(* C9 as stated: right after a 200 response is handled nothing is embedded,  *)
(* both panels are hidden and cleared, and the draft cache does not hold the *)
(* message of that submission.                                               *)
C9_ResetAndDraftGone ==
  last.op = "post-ok" =>
    /\ embedded_resource = NoText
    /\ thumbnail = HiddenThumbnail
    /\ preview = HiddenPreview
    /\ StrLen(last.msg) > MinLen => ls # last.msg

(* C9 as amended: right after a 200 response is handled nothing is embedded  *)
(* and both panels are hidden and cleared; the draft cache is emptied when   *)
(* the request is issued and the 200 handler leaves it as it finds it.       *)
C9_Reset ==
  [][/\ last'.req # <<>> => ls' = NoText
     /\ last'.op = "post-ok" =>
          /\ embedded_resource' = NoText
          /\ thumbnail' = HiddenThumbnail
          /\ preview' = HiddenPreview
          /\ ls' = ls]_vars

\* a 200 response has emptied the textbox and kept the draft typed meanwhile
C9_Witness ==
  /\ last.op = "post-ok"
  /\ textarea = NoText
  /\ ls # NoText
  /\ StrLen(last.msg) > MinLen

(* C10. An input event that is not GIF-locked and whose text contains a      *)
(* YouTube URL with an 11-character id issues no link-metadata fetch: it     *)
(* issues the video-metadata lookup for that id, and nothing if the edit is  *)
(* a line break or the match is embedded already.                            *)
C10_YoutubeOverLink ==
  [][(IsInput(last'.op) /\ ~GiphyMatch(embedded_resource) /\ YoutubeMatch(textarea') # <<>>)
       => LET youtube == YoutubeMatch(textarea')[1]
              lookup == [kind |-> "video", res |-> youtube.full, id |-> youtube.id]
          IN /\ \A k \in 1..Len(Issued) : Issued[k] = lookup
             /\ Len(Issued) =
                  IF last'.op = "input" /\ embedded_resource # youtube.full THEN 1 ELSE 0
             /\ fetches' = fetches \o Issued]_vars

\* a text that both patterns match, and the video lookup issued for it
C10_Witness ==
  /\ last.op = "input"
  /\ last.fx = 1
  /\ YoutubeMatch(textarea) # <<>>
  /\ UrlMatch(textarea) # <<>>
  /\ fetches[Len(fetches)].kind = "video"

\* the raw string an input event detects in the text: the YouTube match, else
\* the first URL match; <<>> when neither pattern matches
Detected(s) ==
  IF YoutubeMatch(s) # <<>> THEN <<YoutubeMatch(s)[1].full>> ELSE UrlMatch(s)

(* C11. An input event that detects in the text the very string that         *)
(* embedded_resource holds already (the YouTube match, else the first URL    *)
(* match) issues no metadata fetch.                                          *)
C11_NoRefetch ==
  [][(IsInput(last'.op) /\ Detected(textarea') = <<embedded_resource>>)
       => last'.fx = 0]_vars

(* C12. An input event whose edit is a line break issues no metadata fetch   *)
(* and leaves embedded_resource and the preview panel as they are: shown or  *)
(* hidden, title, provider, description and image.                           *)
C12_LineBreakPreserves ==
  [][last'.op = "input-lb"
       => /\ last'.fx = 0
          /\ fetches' = fetches
          /\ embedded_resource' = embedded_resource
          /\ thumbnail' = thumbnail]_vars

\* the last space-delimited token starts with "@"
StartsWithAt(s) == LastWord(s) # <<>> /\ Head(LastWord(s)) = "AT"
\* and more than MentionMin characters follow the "@"
Qualifies(s) == StartsWithAt(s) /\ StrLen(Tail(LastWord(s))) > MentionMin

(* C13. Every input event whose last space-delimited token starts with "@"   *)
(* and has more than 2 characters after it issues one user-search lookup for *)
(* those characters, whether or not embedded_resource holds a GIF.           *)
C13_MentionLookup ==
  [][(IsInput(last'.op) /\ Qualifies(textarea'))
       => /\ last'.lk = 1
          /\ lookups' = Append(lookups, [filter |-> Tail(LastWord(textarea')),
                                         lastWord |-> LastWord(textarea')])]_vars

(* C16. Once an input event whose last token does not start with "@" has     *)
(* hidden the dropdown, a user-search response that arrives for an earlier   *)
(* mention token does not show it again.                                     *)
C16_LateResponseHidden ==
  [][(/\ last'.op = "lookup-response"
      /\ IsInput(last.op)
      /\ ~GiphyMatch(embedded_resource)
      /\ ~StartsWithAt(textarea))
       => ~dropdown'.show]_vars

\* the events the draft cache is measured against: typing, emoji insertions,
\* dropdown selections, submissions and their completions
ChangesText(op) ==
  op \in {"input", "input-lb", "emoji", "row-click", "click", "keydown-enter",
          "keyup-enter", "post-ok", "post-failed"}

(* C14. After every typing event, emoji insertion, dropdown selection,       *)
(* submission and completion of a submission, the draft cache holds the      *)
(* value of the textbox or the value the textbox had before that event.      *)
C14_DraftOneBehind ==
  [][ChangesText(last'.op) => (ls' = textarea' \/ ls' = textarea)]_vars

(* C18. The poll container exists exactly when the poll button is selected,  *)
(* and the video container exists exactly when the video button is selected. *)
C18_ContainerIffSelected ==
  /\ poll.container <=> poll.selected
  /\ video.container <=> video.selected

(* C20. The keyup of an Enter press whose keydown has submitted issues no    *)
(* request: one press, one request.                                          *)
C20_OnePressOneRequest ==
  [][(last'.op = "keyup-enter" /\ pressed) => last'.req = <<>>]_vars

\* the panels a resolver leaves when its response for er fills a cleared panel
Populated(er) ==
  LET clean == [Cur EXCEPT !.thumbnail = HiddenThumbnail]
      youtube == YoutubeMatch(er)
  IN IF youtube # <<>>
     THEN {VideoCallback(clean, [kind |-> "video", res |-> er, id |-> youtube[1].id],
                         TRUE).thumbnail}
     ELSE {LinkCallback(clean, [kind |-> "link", res |-> er, id |-> ""], response).thumbnail :
             response \in {x \in LinkResponses(er) : x.ok}}

(* C17. The title, description and image of every submission with resource  *)
(* video or content are those a resolver response for the embedded resource *)
(* puts in the panel: nothing left over from another resource, nothing      *)
(* blanked.                                                                 *)
C17_MetadataOfResource ==
  [][\A k \in 1..Len(last'.req) :
       LET fields == last'.req[k].fields
       IN fields.resource \in {<<"video">>, <<"content">>}
            => \E th \in Populated(embedded_resource) :
                 /\ fields.title = <<th.title>>
                 /\ fields.description = <<th.desc>>
                 /\ fields.image = <<th.img>>]_vars

\* the length of a displayed description
DescLen(desc) == desc.n + (IF desc.dots THEN 3 ELSE 0)

(* C15. When a link-metadata response with a description is applied, the     *)
(* displayed description is the first 200 characters of the response's       *)
(* followed by a 3-character ellipsis (203 characters) if the response's is  *)
(* longer than 200 characters, and the response's description unchanged if   *)
(* it has at most 200.                                                       *)
C15_Truncation ==
  [][\A i \in 1..MaxFetches, d \in Descriptions, hasImage \in BOOLEAN :
       LinkResponse(i, d, hasImage, TRUE)
         => IF d.n > DescLimit
            THEN /\ thumbnail'.desc = [id |-> d.id, n |-> DescLimit, dots |-> TRUE]
                 /\ DescLen(thumbnail'.desc) = DescLimit + 3
            ELSE /\ thumbnail'.desc = d
                 /\ DescLen(thumbnail'.desc) = d.n]_vars

\* a response with a description of 201 characters has been applied
C15_Witness ==
  /\ last.op = "link-response"
  /\ thumbnail.shown
  /\ embedded_resource = <<"URL">>
  /\ thumbnail.desc.dots
  /\ DescLen(thumbnail.desc) = DescLimit + 3

(* C19. embedded_resource comes to hold a value that matches the             *)
(* GIF-provider pattern only by a GIF-selection click.                       *)
C19_GifOnlyByClick ==
  [][(GiphyMatch(embedded_resource') /\ embedded_resource' # embedded_resource)
       => last'.op = "selectGif"]_vars

====
